---------------------------- MODULE Spec2Model ----------------------------
(***************************************************************************)
(* A model of the ISSAT Kairouan question-answering chatbot                *)
(* (src/chatbot_smart.py): the text normalizer, the similarity scorer,     *)
(* the Q&A matcher, the program statistics aggregator, the response        *)
(* router get_smart_response and the request handler home.                 *)
(*                                                                         *)
(* Texts are sequences of one-character strings, so that Python's          *)
(* substring test, lower(), split() and re.sub are modelled character by   *)
(* character.  A Python dict is a function whose domain is the set of keys *)
(* present; d.get(k, default) is Get(d, k, default).  Scores are exact     *)
(* rationals [num, den]; the binary rounding of Python floats is not       *)
(* modelled.                                                               *)
(***************************************************************************)
EXTENDS Integers, Sequences, FiniteSets, TLC

VARIABLES
  all_data,       \* the structured data sets, by name
  qa_data,        \* the Q&A bank
  conversations,  \* the transcript
  user_question,  \* the utterance of the current call
  qa_match,       \* <<qa_answer, qa_score>> of the current call
  response,       \* what the current call returned
  norm_text,      \* the argument and the result of normalize_text
  name_fragment,  \* the name fragment given to calculate_master_stats
  master_stats,   \* what calculate_master_stats returned
  pc              \* the position of the current call or request

vars ==
  <<all_data, qa_data, conversations, user_question, qa_match, response,
    norm_text, name_fragment, master_stats, pc>>

(***************************************************************************)
(* Bounds of the model.                                                    *)
(***************************************************************************)
\* Largest number of semesters of a loaded program record.
MaxSemesters == 3

\* Largest number of filler words appended to an utterance.
MaxPad == 2

\* Largest number of requests the handler processes in one behaviour.
MaxRequests == 2

(***************************************************************************)
(* Python primitives.                                                      *)
(***************************************************************************)
\* dict.get(key, default)
Get(d, k, default) == IF k \in DOMAIN d THEN d[k] ELSE default

\* The value None where a text or a list is expected.
None == <<"None">>

\* The value None where a dict is expected.
NoDict == [none |-> TRUE]

\* Truthiness of a text, a list or None ("if x:").
Truthy(x) == x # None /\ x # <<>>

\* d.get(k) of a number or a text that is only ever formatted: the value
\* with its type, or None.
GetInt(d, k) ==
  IF k \in DOMAIN d THEN [kind |-> "int", val |-> d[k]]
  ELSE [kind |-> "none", val |-> 0]

GetText(d, k) ==
  IF k \in DOMAIN d THEN [kind |-> "str", val |-> d[k]]
  ELSE [kind |-> "none", val |-> 0]

Digits == <<"0","1","2","3","4","5","6","7","8","9">>

RECURSIVE Str(_)
\* str(n) of a natural number: its decimal digits
Str(n) == IF n < 10 THEN <<Digits[n + 1]>>
          ELSE Str(n \div 10) \o <<Digits[(n % 10) + 1]>>

\* The text an f-string substitutes for a value.
Format(v) ==
  CASE v.kind = "int"  -> Str(v.val)
    [] v.kind = "str"  -> v.val
    [] v.kind = "none" -> <<"N","o","n","e">>

Range(s) == {s[i] : i \in 1..Len(s)}

RECURSIVE SumSeq(_)
\* sum([...]) of a list of numbers
SumSeq(s) == IF s = <<>> THEN 0 ELSE Head(s) + SumSeq(Tail(s))

RECURSIVE Flatten(_)
\* The concatenation of a list of lists.
Flatten(ss) == IF ss = <<>> THEN <<>> ELSE Head(ss) \o Flatten(Tail(ss))

\* str.lower() on the letters of the model's alphabet.
ToLower ==
  [A |-> "a", B |-> "b", C |-> "c", D |-> "d", E |-> "e", F |-> "f", G |-> "g",
   H |-> "h", I |-> "i", J |-> "j", K |-> "k", L |-> "l", M |-> "m", N |-> "n",
   O |-> "o", P |-> "p", Q |-> "q", R |-> "r", S |-> "s", T |-> "t", U |-> "u",
   V |-> "v", W |-> "w", X |-> "x", Y |-> "y", Z |-> "z"]

LowerChar(c) ==
  IF c \in DOMAIN ToLower THEN ToLower[c] ELSE IF c = "É" THEN "é" ELSE c

lower(text) == [i \in 1..Len(text) |-> LowerChar(text[i])]

\* The characters matched by \s, the separators of str.split().
Whitespace == {" ", "\n"}

\* The characters of the class [a-z0-9].
AlphaNum ==
  {"a","b","c","d","e","f","g","h","i","j","k","l","m","n","o","p","q","r",
   "s","t","u","v","w","x","y","z","0","1","2","3","4","5","6","7","8","9"}

\* needle in haystack (Python's substring test)
Contains(needle, hay) ==
  \E i \in 0..(Len(hay) - Len(needle)) :
     \A j \in 1..Len(needle) : hay[i + j] = needle[j]

\* any(word in text for word in words)
AnyIn(words, text) == \E i \in 1..Len(words) : Contains(words[i], text)

RECURSIVE split(_)
\* str.split(): the maximal runs of non-whitespace characters, in order
split(text) ==
  IF text = <<>> THEN <<>>
  ELSE IF Head(text) \in Whitespace THEN split(Tail(text))
  ELSE LET ends == {i \in 1..Len(text) : text[i] \in Whitespace}
           n    == IF ends = {} THEN Len(text)
                   ELSE (CHOOSE i \in ends : \A k \in ends : i <= k) - 1
       IN  <<SubSeq(text, 1, n)>> \o split(SubSeq(text, n + 1, Len(text)))

\* set(text.split())
WordSet(text) == Range(split(text))

RECURSIVE Replace(_, _, _)
\* str.replace(old, new) for a one-character old
Replace(text, old, new) ==
  IF text = <<>> THEN <<>>
  ELSE (IF Head(text) = old THEN new ELSE <<Head(text)>>)
       \o Replace(Tail(text), old, new)

\* '<br>'.join(items)
RECURSIVE Join(_, _)
Join(sep, items) ==
  IF items = <<>> THEN <<>>
  ELSE IF Len(items) = 1 THEN Head(items)
  ELSE Head(items) \o sep \o Join(sep, Tail(items))

(***************************************************************************)
(* Text Normalizer.                                                        *)
(***************************************************************************)
\* re.sub(r'3', 'a', text)
Sub3(text) == [i \in 1..Len(text) |-> IF text[i] = "3" THEN "a" ELSE text[i]]

\* re.sub(r'[^a-z0-9\s]', '', text)
StripOther(text) == SelectSeq(text, LAMBDA c : c \in AlphaNum \cup Whitespace)

\* A normalizer that does not replace '3' by 'a'.
normalize_textKeepsThree(text) == StripOther(lower(text))

normalize_text(text) == StripOther(Sub3(lower(text)))

(***************************************************************************)
(* Similarity Scorer: difflib.SequenceMatcher(None, a, b).ratio().         *)
(***************************************************************************)
RECURSIVE RunLen(_, _, _, _, _, _)
\* Length of the common run of a[i..ahi] and b[j..bhi] starting at i and j.
RunLen(a, b, i, j, ahi, bhi) ==
  IF i > ahi \/ j > bhi \/ a[i] # b[j] THEN 0
  ELSE 1 + RunLen(a, b, i + 1, j + 1, ahi, bhi)

\* The least pair <<i, j>> of a set of pairs: i least, then j least.
LeastPair(pairs) ==
  LET i  == CHOOSE x \in {p[1] : p \in pairs} : \A p \in pairs : x <= p[1]
      js == {p[2] : p \in {r \in pairs : r[1] = i}}
  IN  <<i, CHOOSE y \in js : \A z \in js : y <= z>>

\* Of the runs <<i, j, k>>, the longest one, and the least of the longest.
LongestRun(runs) ==
  LET k  == CHOOSE x \in {r[3] : r \in runs} : \A r \in runs : x >= r[3]
      ij == LeastPair({<<r[1], r[2]>> : r \in {s \in runs : s[3] = k}})
  IN  <<ij[1], ij[2], k>>

\* find_longest_match: the block <<i, j, k>> with a[i..i+k-1] = b[j..j+k-1]
\* inside a[alo..ahi], b[blo..bhi], k largest, then i least, then j least.
\* Such a block starts where the pair before it does not match.
find_longest_match(a, b, alo, ahi, blo, bhi) ==
  LET starts == {p \in (alo..ahi) \X (blo..bhi) :
                   /\ a[p[1]] = b[p[2]]
                   /\ \/ p[1] = alo
                      \/ p[2] = blo
                      \/ a[p[1] - 1] # b[p[2] - 1]}
  IN  IF starts = {} THEN <<alo, blo, 0>>
      ELSE LongestRun({<<p[1], p[2], RunLen(a, b, p[1], p[2], ahi, bhi)>> :
                         p \in starts})

RECURSIVE Matches(_, _, _, _, _, _)
\* The sum of the sizes of get_matching_blocks(): the longest block, then
\* recursively the pieces to its left and to its right.
Matches(a, b, alo, ahi, blo, bhi) ==
  IF alo > ahi \/ blo > bhi THEN 0
  ELSE LET m == find_longest_match(a, b, alo, ahi, blo, bhi)
       IN  IF m[3] = 0 THEN 0
           ELSE m[3]
                + Matches(a, b, alo, m[1] - 1, blo, m[2] - 1)
                + Matches(a, b, m[1] + m[3], ahi, m[2] + m[3], bhi)

\* ratio() = 2.0 * matches / (len(a) + len(b)), and 1.0 when both are empty
similarity(a, b) ==
  LET la == lower(a)
      lb == lower(b)
      T  == Len(la) + Len(lb)
  IN  IF T = 0 THEN [num |-> 1, den |-> 1]
      ELSE [num |-> 2 * Matches(la, lb, 1, Len(la), 1, Len(lb)), den |-> T]

(***************************************************************************)
(* Exact arithmetic on scores.                                             *)
(***************************************************************************)
Zero == [num |-> 0, den |-> 1]

\* x + n/20
AddTwentieths(x, n) == [num |-> 20 * x.num + n * x.den, den |-> 20 * x.den]

\* x > y
Greater(x, y) == x.num * y.den > y.num * x.den

\* x > n/10
AboveTenths(x, n) == 10 * x.num > n * x.den

\* The thresholds of the code, in tenths: "best_score > 0.5",
\* "qa_score > 0.7" and "qa_score > 0.5".
ReturnThreshold == 5

HighBand == 7

MidBand == 5

\* The cap of the greeting rule: "len(question_words) <= 3".
GreetingMaxWords == 3

(***************************************************************************)
(* Q&A Matcher.                                                            *)
(***************************************************************************)
RECURSIVE KeywordTally(_, _, _)
\* The loop over qa.get('keywords', []): score in twentieths (0.5 = 10,
\* 0.2 = 4) and keyword_matches in halves (1 = 2, 0.5 = 1).
KeywordTally(keywords, user_norm, user_words) ==
  IF keywords = <<>> THEN [score |-> 0, matches |-> 0]
  ELSE LET keyword_norm  == normalize_text(Head(keywords))
           keyword_words == WordSet(keyword_norm)
           rest == KeywordTally(Tail(keywords), user_norm, user_words)
       IN  IF Contains(keyword_norm, user_norm)
             THEN [score |-> rest.score + 10, matches |-> rest.matches + 2]
           ELSE IF keyword_words \cap user_words # {}
             THEN [score |-> rest.score + 4, matches |-> rest.matches + 1]
           ELSE rest

\* keyword_score after "if keyword_matches >= 2: keyword_score *= 1.5"
keyword_score(qa, user_norm, user_words) ==
  LET t == KeywordTally(Get(qa, "keywords", <<>>), user_norm, user_words)
  IN  IF t.matches >= 4 THEN (t.score * 3) \div 2 ELSE t.score

\* total_score = q_score + keyword_score
total_score(qa, user_norm, user_words) ==
  AddTwentieths(similarity(user_norm, normalize_text(qa.question)),
                keyword_score(qa, user_norm, user_words))

RECURSIVE BestScanLastWins(_, _, _, _, _)
\* A scan in which a record also replaces the best one when its score is
\* equal.
BestScanLastWins(records, user_norm, user_words, best_match, best_score) ==
  IF records = <<>> THEN [match |-> best_match, score |-> best_score]
  ELSE LET qa == Head(records)
           ts == total_score(qa, user_norm, user_words)
       IN  IF ~Greater(best_score, ts)
             THEN BestScanLastWins(Tail(records), user_norm, user_words, qa, ts)
             ELSE BestScanLastWins(Tail(records), user_norm, user_words,
                                   best_match, best_score)

RECURSIVE BestScan(_, _, _, _, _)
\* The scan of all records: a record replaces the best one only when its
\* score is strictly greater.
BestScan(records, user_norm, user_words, best_match, best_score) ==
  IF records = <<>> THEN [match |-> best_match, score |-> best_score]
  ELSE LET qa == Head(records)
           ts == total_score(qa, user_norm, user_words)
       IN  IF Greater(ts, best_score)
             THEN BestScan(Tail(records), user_norm, user_words, qa, ts)
             ELSE BestScan(Tail(records), user_norm, user_words,
                           best_match, best_score)

\* A matcher that returns the best record whatever its score.
find_best_qa_matchNoThreshold(question, bank) ==
  LET user_norm  == normalize_text(question)
      user_words == WordSet(user_norm)
      best == BestScan(Flatten(bank), user_norm, user_words, None, Zero)
  IN  IF Greater(best.score, Zero)
        THEN <<best.match.answer, best.score>>
        ELSE <<None, Zero>>

\* find_best_qa_match(user_question, qa_data): <<answer, score>>.  The bank
\* is the list of its categories in mapping order.
find_best_qa_match(question, bank) ==
  LET user_norm  == normalize_text(question)
      user_words == WordSet(user_norm)
      best == BestScan(Flatten(bank), user_norm, user_words, None, Zero)
  IN  IF AboveTenths(best.score, ReturnThreshold)
        THEN <<best.match.answer, best.score>>
        ELSE <<None, Zero>>

(***************************************************************************)
(* Program Statistics Aggregator.                                          *)
(***************************************************************************)
\* One entry of ue_info['ecues'].
EcueInfo(ecue) ==
  [nom     |-> GetText(ecue, "Libelle_ECUE"),
   credits |-> GetInt(ecue, "Cr_ECUE"),
   cours   |-> Get(ecue, "Cours", 0),
   td      |-> Get(ecue, "TD", 0),
   tp      |-> Get(ecue, "TP", 0)]

\* ue_info for one teaching unit.
UeInfo(ue) ==
  LET ecues == Get(ue, "ECUEs", <<>>)
  IN  [nom     |-> GetText(ue, "Libelle_UE"),
       credits |-> GetInt(ue, "Cr_UE"),
       ecues   |-> [i \in 1..Len(ecues) |-> EcueInfo(ecues[i])]]

\* A sem_stats whose hours are those of the first unit only.
SemStatsFirstUnit(sem) ==
  LET units == Get(sem, "Unites_Enseignement", <<>>)
      ues   == [i \in 1..Len(units) |-> UeInfo(units[i])]
      all   == IF ues = <<>> THEN <<>> ELSE ues[1].ecues
  IN  [numero         |-> GetInt(sem, "Semestre"),
       credits        |-> Get(sem, "Total_Credits", 0),
       volume_horaire |-> Get(sem, "Total_Volume_Horaire_Presentiel", 0),
       tp_hours       |-> SumSeq([i \in 1..Len(all) |-> all[i].tp]),
       cours_hours    |-> SumSeq([i \in 1..Len(all) |-> all[i].cours]),
       td_hours       |-> SumSeq([i \in 1..Len(all) |-> all[i].td]),
       ues            |-> ues]

\* sem_stats for one semester: the hours are summed over the sub-courses
\* of all its units.
SemStats(sem) ==
  LET units == Get(sem, "Unites_Enseignement", <<>>)
      ues   == [i \in 1..Len(units) |-> UeInfo(units[i])]
      all   == Flatten([i \in 1..Len(ues) |-> ues[i].ecues])
  IN  [numero         |-> GetInt(sem, "Semestre"),
       credits        |-> Get(sem, "Total_Credits", 0),
       volume_horaire |-> Get(sem, "Total_Volume_Horaire_Presentiel", 0),
       tp_hours       |-> SumSeq([i \in 1..Len(all) |-> all[i].tp]),
       cours_hours    |-> SumSeq([i \in 1..Len(all) |-> all[i].cours]),
       td_hours       |-> SumSeq([i \in 1..Len(all) |-> all[i].td]),
       ues            |-> ues]

\* The stats of one matched program.
MasterStats(master) ==
  LET sems      == Get(master, "Semestres", <<>>)
      semesters == [i \in 1..Len(sems) |-> SemStats(sems[i])]
  IN  [total_credits     |-> SumSeq([i \in 1..Len(sems) |-> semesters[i].credits]),
       total_tp_hours    |-> SumSeq([i \in 1..Len(sems) |-> semesters[i].tp_hours]),
       total_cours_hours |-> SumSeq([i \in 1..Len(sems) |-> semesters[i].cours_hours]),
       total_td_hours    |-> SumSeq([i \in 1..Len(sems) |-> semesters[i].td_hours]),
       semesters         |-> semesters]

\* The test of the lookup loop: the fragment is in Parcours or in Mention.
ProgramMatches(master, parcours_name) ==
  \/ Contains(lower(parcours_name), lower(Get(master, "Parcours", <<>>)))
  \/ Contains(lower(parcours_name), lower(Get(master, "Mention", <<>>)))

RECURSIVE calculate_master_statsLastMatch(_, _)
\* A lookup in which the last program that matches wins.
calculate_master_statsLastMatch(master_data, parcours_name) ==
  IF master_data = <<>> THEN NoDict
  ELSE LET later ==
             calculate_master_statsLastMatch(Tail(master_data), parcours_name)
       IN  IF later # NoDict THEN later
           ELSE IF ProgramMatches(Head(master_data), parcours_name)
             THEN MasterStats(Head(master_data))
           ELSE NoDict

RECURSIVE calculate_master_stats(_, _)
\* The stats of the first program that matches, None when none does.
calculate_master_stats(master_data, parcours_name) ==
  IF master_data = <<>> THEN NoDict
  ELSE IF ProgramMatches(Head(master_data), parcours_name)
    THEN MasterStats(Head(master_data))
  ELSE calculate_master_stats(Tail(master_data), parcours_name)

(***************************************************************************)
(* Response Router.  A response is the template the code returns (tpl, and *)
(* the heading the template starts with) together with the texts            *)
(* substituted into it, in order.  An uncaught exception is the response   *)
(* whose tpl is the name of the exception.                                 *)
(***************************************************************************)
Resp(tpl, heading, args) == [tpl |-> tpl, heading |-> heading, args |-> args]

\* A rule that returns nothing: control falls through to the next rule.
Pass == Resp("pass", <<>>, <<>>)

\* stats['semesters'][i] with i out of range.
IndexError == Resp("IndexError", <<"l","i","s","t"," ","i","n","d","e","x"," ","o","u","t"," ","o","f"," ","r","a","n","g","e">>, <<>>)

greeting_words ==
  <<<<"a","h","l","a">>, <<"s","a","l","a","m">>, <<"a","s","l","e","m","a">>, <<"l","a","b","e","s">>, <<"c","h","n","a","h","w","e","l","e","k">>, <<"a","y","c","h","e","k">>, <<"b","o","n","j","o","u","r">>,
    <<"s","a","l","u","t">>, <<"h","e","l","l","o">>, <<"h","i">>>>

\* [f"(bullet) {x}" for x in items]; the bullet is written as a middle dot
Bullets(items) == [i \in 1..Len(items) |-> <<"·"," ">> \o items[i]]

Presentation(data) == Get(Get(data, "presentation", <<>>), "Presentation", <<>>)

\* if qa_answer and qa_score > 0.7
RuleQaHigh(qa_answer, qa_score) ==
  IF Truthy(qa_answer) /\ AboveTenths(qa_score, HighBand)
    THEN Resp("qa_high", <<"R","é","p","o","n","s","e",":">>, <<qa_answer>>)
    ELSE Pass

\* The greeting test without its word-count guard.
IsGreetingNoCap(question_lower, question_words) ==
  AnyIn(greeting_words, question_lower)

\* The greeting test: a greeting word is a substring of the lower-cased
\* question and the set of its normalized words has at most 3 elements.
IsGreeting(question_lower, question_words) ==
  /\ AnyIn(greeting_words, question_lower)
  /\ Cardinality(question_words) <= GreetingMaxWords

RuleGreeting(question_lower, question_words) ==
  IF IsGreeting(question_lower, question_words)
    THEN Resp("greeting", <<"A","h","l","a"," ","w"," ","s","a","h","l","a"," ","b","i","k","!">>, <<>>)
    ELSE Pass

\* Licences: the listing, then the details of the computer-science licence.
RuleLicence(q, data) ==
  IF /\ Contains(<<"l","i","c","e","n","c","e">>, q) \/ Contains(<<"b","a","c","h","e","l","o","r">>, q)
     /\ ~Contains(<<"m","a","s","t","e","r">>, q)
    THEN LET licences == Get(Get(Presentation(data), "Formations", <<>>),
                             "Licences", <<>>)
         IN  IF /\ AnyIn(<<<<"q","u","e","l">>, <<"c","i","t","e","r">>, <<"l","i","s","t","e">>, <<"d","i","s","p","o","n","i","b","l","e">>, <<"t","y","p","e">>>>, q)
                /\ Truthy(licences)
               THEN Resp("licence_list",
                         <<"L","i","c","e","n","c","e","s"," ","d","i","s","p","o","n","i","b","l","e","s"," ","à"," ","l","'","I","S","S","A","T"," ","K","a","i","r","o","u","a","n",":">>,
                         <<Join(<<"<","b","r",">">>, Bullets(licences))>>)
             ELSE IF /\ Contains(<<"i","n","f","o","r","m","a","t","i","q","u","e">>, q) \/ Contains(<<"i","s","i">>, q)
                     /\ AnyIn(<<<<"c","o","u","r","s">>, <<"m","o","d","u","l","e">>, <<"m","a","t","i","e","r","e">>, <<"p","r","o","g","r","a","m","m","e">>>>, q)
               THEN Resp("licence_isi",
                         <<"L","i","c","e","n","c","e"," ","e","n"," ","I","n","g","é","n","i","e","r","i","e"," ","d","e","s"," ","S","y","s","t","è","m","e","s"," ","I","n","f","o","r","m","a","t","i","q","u","e","s",":">>,
                         <<>>)
             ELSE Pass
    ELSE Pass

\* Masters: the listing, unless 'automatique' or 'data science' is named.
RuleMaster(q, data) ==
  IF /\ Contains(<<"m","a","s","t","e","r">>, q)
     /\ ~Contains(<<"a","u","t","o","m","a","t","i","q","u","e">>, q)
     /\ ~Contains(<<"d","a","t","a"," ","s","c","i","e","n","c","e">>, q)
     /\ AnyIn(<<<<"q","u","e","l">>, <<"c","i","t","e","r">>, <<"l","i","s","t","e">>, <<"d","i","s","p","o","n","i","b","l","e">>, <<"t","y","p","e">>, <<"p","r","o","g","r","a","m","m","e">>>>, q)
    THEN LET formations   == Get(Presentation(data), "Formations", <<>>)
             masters_rech == Get(formations, "Masters_Recherche", <<>>)
             masters_pro  == Get(formations, "Masters_Professionnels", <<>>)
         IN  Resp("master_list", <<"M","a","s","t","e","r","s"," ","d","i","s","p","o","n","i","b","l","e","s"," ","à"," ","l","'","I","S","S","A","T"," ","K","a","i","r","o","u","a","n",":">>,
                  <<IF Truthy(masters_rech)
                      THEN <<"<","s","t","r","o","n","g",">","M","a","s","t","e","r","s"," ","R","e","c","h","e","r","c","h","e",":","<","/","s","t","r","o","n","g",">","<","b","r",">">>
                           \o Join(<<"<","b","r",">">>, Bullets(masters_rech))
                           \o <<"<","b","r",">","<","b","r",">">>
                      ELSE <<>>,
                    IF Truthy(masters_pro)
                      THEN <<"<","s","t","r","o","n","g",">","M","a","s","t","e","r","s"," ","P","r","o","f","e","s","s","i","o","n","n","e","l","s",":","<","/","s","t","r","o","n","g",">","<","b","r",">">>
                           \o Join(<<"<","b","r",">">>, Bullets(masters_pro))
                           \o <<"<","b","r",">","<","b","r",">">>
                      ELSE <<>> >>)
    ELSE Pass

\* Direction.Directeur and Direction.Secretaire_general, as both the
\* organigramme and the director rule read them.
Direction(data) ==
  LET dir == Get(Presentation(data), "Direction", <<>>)
  IN  <<Get(dir, "Directeur", <<"N","o","n"," ","d","i","s","p","o","n","i","b","l","e">>),
        Get(dir, "Secretaire_general", <<"N","o","n"," ","d","i","s","p","o","n","i","b","l","e">>)>>

RuleOrganigramme(q, data) ==
  IF \/ Contains(<<"o","r","g","a","n","i","g","r","a","m","m","e">>, q)
     \/ Contains(<<"s","t","r","u","c","t","u","r","e">>, q) /\ Contains(<<"a","d","m","i","n","i","s","t","r","a","t","i","v","e">>, q)
    THEN Resp("organigramme",
              <<"S","t","r","u","c","t","u","r","e"," ","A","d","m","i","n","i","s","t","r","a","t","i","v","e"," ","d","e"," ","l","'","I","S","S","A","T"," ","K","a","i","r","o","u","a","n",":">>, Direction(data))
    ELSE Pass

RuleCoefficient(q) ==
  IF Contains(<<"c","o","e","f","f","i","c","i","e","n","t">>, q) /\ ~Contains(<<"m","a","s","t","e","r">>, q)
    THEN Resp("coefficient", <<"S","y","s","t","è","m","e"," ","d","e"," ","C","o","e","f","f","i","c","i","e","n","t","s"," ","à"," ","l","'","I","S","S","A","T",":">>, <<>>)
    ELSE Pass

\* sum([ecue['tp'] for ecue in ue['ecues']])
UeTp(ue) == SumSeq([i \in 1..Len(ue.ecues) |-> ue.ecues[i].tp])

\* The "Détail des ateliers" lines of a semester: the units whose practical
\* hours are positive.
TpDetail(sem) ==
  LET with == SelectSeq(sem.ues, LAMBDA ue : UeTp(ue) > 0)
  IN  Join(<<"<","b","r",">">>, [i \in 1..Len(with) |->
                      <<"·"," ">> \o Format(with[i].nom) \o <<":"," ">>
                      \o Str(UeTp(with[i])) \o <<"h">>])

\* The practical-hours response of the semester at position idx of the
\* list (1 for stats['semesters'][0]).
TpSemester(stats, idx) ==
  IF Len(stats.semesters) < idx THEN IndexError
  ELSE LET sem == stats.semesters[idx]
       IN  Resp("tp_semester",
                <<"H","e","u","r","e","s"," ","d","e"," ","T","P"," ","-"," ","S","e","m","e","s","t","r","e"," ">> \o Str(idx) \o <<" ","(","M","a","s","t","e","r"," ","A","u","t","o","m","a","t","i","q","u","e",")",":">>,
                <<Str(sem.tp_hours), TpDetail(sem)>>)

\* stats['semesters'][:3]
First3(semesters) ==
  SubSeq(semesters, 1, IF Len(semesters) < 3 THEN Len(semesters) ELSE 3)

TpTotal(stats) ==
  LET sems == First3(stats.semesters)
  IN  Resp("tp_total", <<"H","e","u","r","e","s"," ","d","e"," ","T","P"," ","-"," ","M","a","s","t","e","r"," ","A","u","t","o","m","a","t","i","q","u","e"," ","(","T","o","t","a","l",")",":">>,
           <<Str(stats.total_tp_hours),
             Join(<<"<","b","r",">">>, [i \in 1..Len(sems) |->
                             <<"·"," ","S","e","m","e","s","t","r","e"," ">> \o Format(sems[i].numero) \o <<":"," ">>
                             \o Str(sems[i].tp_hours) \o <<"h">>])>>)

\* The practical-hours branch.
RuleTp(q, stats) ==
  IF AnyIn(<<<<"t","p">>, <<"t","r","a","v","a","u","x"," ","p","r","a","t","i","q","u","e","s">>, <<"p","r","a","t","i","q","u","e">>>>, q)
    THEN IF AnyIn(<<<<"s","e","m","e","s","t","r","e"," ","1">>, <<"s","1">>, <<"p","r","e","m","i","e","r">>>>, q)
           THEN TpSemester(stats, 1)
         ELSE IF AnyIn(<<<<"s","e","m","e","s","t","r","e"," ","2">>, <<"s","2">>, <<"d","e","u","x","i","è","m","e">>>>, q)
           THEN TpSemester(stats, 2)
         ELSE TpTotal(stats)
    ELSE Pass

\* The lecture/tutorial branch: only semester 1 has a response.
RuleVolume(q, stats) ==
  IF /\ AnyIn(<<<<"c","o","u","r","s">>, <<"t","d">>, <<"h","e","u","r","e","s"," ","c","o","u","r","s">>, <<"v","o","l","u","m","e"," ","h","o","r","a","i","r","e">>>>, q)
     /\ AnyIn(<<<<"s","e","m","e","s","t","r","e"," ","1">>, <<"s","1">>>>, q)
    THEN IF Len(stats.semesters) < 1 THEN IndexError
         ELSE LET sem1 == stats.semesters[1]
              IN  Resp("volume_semester", <<"V","o","l","u","m","e"," ","h","o","r","a","i","r","e"," ","-"," ","S","e","m","e","s","t","r","e"," ","1",":">>,
                       <<Str(sem1.cours_hours), Str(sem1.td_hours),
                         Str(sem1.tp_hours), Str(sem1.volume_horaire)>>)
    ELSE Pass

RuleCredits(q, stats) ==
  IF AnyIn(<<<<"c","r","é","d","i","t">>, <<"c","r","e","d","i","t">>, <<"e","c","t","s">>>>, q)
    THEN Resp("credits", <<"C","r","é","d","i","t","s"," ","-"," ","M","a","s","t","e","r"," ","A","u","t","o","m","a","t","i","q","u","e",":">>,
              <<Str(stats.total_credits),
                Join(<<"<","b","r",">">>, [i \in 1..Len(stats.semesters) |->
                                <<"·"," ","S","e","m","e","s","t","r","e"," ">>
                                \o Format(stats.semesters[i].numero) \o <<":"," ">>
                                \o Str(stats.semesters[i].credits)
                                \o <<" ","c","r","é","d","i","t","s">>])>>)
    ELSE Pass

\* The lines of one unit in the course listing.
UeLines(ue) ==
  <<"<","s","t","r","o","n","g",">">> \o Format(ue.nom) \o <<"<","/","s","t","r","o","n","g",">"," ","(">> \o Format(ue.credits)
  \o <<" ","c","r","é","d","i","t","s",")",":","<","b","r",">">>
  \o Join(<<"<","b","r",">">>, [i \in 1..Len(ue.ecues) |->
                     <<" "," ","·"," ">> \o Format(ue.ecues[i].nom)])

\* The course listing of the first of the first three semesters whose
\* position i is named as 'semestre i' or 's i'.
RuleCourses(q, stats) ==
  LET sems  == First3(stats.semesters)
      named == {i \in 1..Len(sems) :
                  \/ Contains(<<"s","e","m","e","s","t","r","e"," ">> \o Str(i), q)
                  \/ Contains(<<"s">> \o Str(i), q)}
  IN  IF AnyIn(<<<<"s","e","m","e","s","t","r","e">>, <<"c","o","u","r","s"," ","d","u">>>>, q) /\ named # {}
        THEN LET i   == CHOOSE n \in named : \A m \in named : n <= m
                 sem == sems[i]
             IN  Resp("courses",
                      <<"C","o","u","r","s"," ","S","e","m","e","s","t","r","e"," ">> \o Str(i) \o <<" ","-"," ","M","a","s","t","e","r"," ","A","u","t","o","m","a","t","i","q","u","e",":">>,
                      <<Join(<<"<","b","r",">">>, [u \in 1..Len(sem.ues) |->
                                        UeLines(sem.ues[u])]),
                        Str(sem.credits), Str(sem.volume_horaire)>>)
        ELSE Pass

\* The sub-rules of the program-scoped rule, in order.
AutomatiqueSubRule(n, q, stats) ==
  CASE n = 1 -> RuleTp(q, stats)
    [] n = 2 -> RuleVolume(q, stats)
    [] n = 3 -> RuleCredits(q, stats)
    [] n = 4 -> RuleCourses(q, stats)

RECURSIVE AutomatiqueChain(_, _, _)
AutomatiqueChain(n, q, stats) ==
  IF n > 4 THEN Pass
  ELSE LET r == AutomatiqueSubRule(n, q, stats)
       IN  IF r # Pass THEN r ELSE AutomatiqueChain(n + 1, q, stats)

\* The trigger of the program-scoped rule.
NamesProgram(q) ==
  Contains(<<"a","u","t","o","m","a","t","i","q","u","e">>, q) \/ Contains(<<"i","n","f","o","r","m","a","t","i","q","u","e"," ","i","n","d","u","s","t","r","i","e","l","l","e">>, q)

\* Master Automatique detailed questions.
RuleAutomatique(q, data) ==
  IF NamesProgram(q)
    THEN LET stats == calculate_master_stats(
                        Get(data, "master_recherche", <<>>), <<"a","u","t","o","m","a","t","i","q","u","e">>)
         IN  IF stats # NoDict THEN AutomatiqueChain(1, q, stats) ELSE Pass
    ELSE Pass

RuleDirector(q, data) ==
  IF Contains(<<"d","i","r","e","c","t","e","u","r">>, q) \/ Contains(<<"d","i","r","e","c","t","o","r">>, q)
    THEN Resp("director", <<"D","i","r","e","c","t","i","o","n"," ","d","e"," ","l","'","I","S","S","A","T"," ","K","a","i","r","o","u","a","n",":">>, Direction(data))
    ELSE Pass

\* The first procedure of the list whose id is the given one, or NoDict.
RECURSIVE FindProcedure(_, _)
FindProcedure(procedures, id) ==
  IF procedures = <<>> THEN NoDict
  ELSE IF "id" \in DOMAIN Head(procedures) /\ Head(procedures).id = id
    THEN Head(procedures)
  ELSE FindProcedure(Tail(procedures), id)

RuleAttestation(q, data) ==
  IF \/ Contains(<<"a","t","t","e","s","t","a","t","i","o","n">>, q) /\ Contains(<<"p","r","é","s","e","n","c","e">>, q)
     \/ Contains(<<"a","t","t","e","s","t","a","t","i","o","n"," ","p","r","e","s","e","n","c","e">>, q)
    THEN LET proc == FindProcedure(Get(data, "admin_procedures", <<>>),
                                   <<"a","t","t","e","s","t","a","t","i","o","n","_","p","r","e","s","e","n","c","e">>)
         IN  IF proc = NoDict THEN Pass
             ELSE Resp("attestation", <<"A","t","t","e","s","t","a","t","i","o","n"," ","d","e"," ","P","r","é","s","e","n","c","e",":">>,
                       <<Get(proc, "description", <<>>),
                         Join(<<"<","b","r",">">>, Get(proc, "steps", <<>>)),
                         Join(<<"<","b","r",">">>, Bullets(Get(proc, "documents", <<>>))),
                         Join(<<"<","b","r",">">>, Bullets(Get(proc, "conditions", <<>>))),
                         Get(proc, "deadlines", <<>>),
                         Get(proc, "cost", <<>>),
                         Get(proc, "office", <<>>),
                         Get(proc, "notes", <<>>)>>)
    ELSE Pass

RuleReclamation(q, data) ==
  IF /\ Contains(<<"r","é","c","l","a","m","a","t","i","o","n">>, q) \/ Contains(<<"r","e","c","l","a","m","a","t","i","o","n">>, q)
     /\ Contains(<<"n","o","t","e">>, q)
    THEN LET proc == FindProcedure(Get(data, "admin_procedures", <<>>),
                                   <<"r","e","c","l","a","m","a","t","i","o","n","_","n","o","t","e","s">>)
         IN  IF proc = NoDict THEN Pass
             ELSE Resp("reclamation", <<"R","é","c","l","a","m","a","t","i","o","n"," ","d","e"," ","N","o","t","e",":">>,
                       <<Get(proc, "description", <<>>),
                         Join(<<"<","b","r",">">>, Get(proc, "steps", <<>>)),
                         Join(<<"<","b","r",">">>, Bullets(Get(proc, "documents", <<>>))),
                         Get(proc, "deadlines", <<>>),
                         Get(proc, "cost", <<>>),
                         Join(<<"<","b","r",">">>, Bullets(Get(proc, "important_notes", <<>>))),
                         Join(<<"<","b","r",">">>, Bullets(Get(proc, "motifs_reclamation", <<>>)))>>)
    ELSE Pass

RuleAbsence(q, data) ==
  IF Contains(<<"a","b","s","e","n","c","e">>, q) \/ Contains(<<"a","b","s","e","n","t">>, q) \/ Contains(<<"j","u","s","t","i","f">>, q)
    THEN LET rules == Get(data, "absences_rules", <<>>)
         IN  Resp("absence", <<"R","è","g","l","e","s"," ","d","'","a","b","s","e","n","c","e",":">>,
                  <<Replace(Get(rules, "difference", <<>>), "\n", <<"<","b","r",">">>),
                    Replace(Get(rules, "submit_how", <<>>), "\n", <<"<","b","r",">">>),
                    Get(rules, "deadlines", <<>>),
                    Get(rules, "warning_logic", <<>>),
                    Get(rules, "elimination_logic", <<>>)>>)
    ELSE Pass

RuleIssat(q, data) ==
  IF \/ Contains(<<"i","s","s","a","t">>, q) \/ Contains(<<"i","n","s","t","i","t","u","t">>, q)
     \/ Contains(<<"c","r","e","a","t","i","o","n">>, q) \/ Contains(<<"c","r","é","é">>, q)
     \/ Contains(<<"f","o","n","d","a","t","i","o","n">>, q)
    THEN LET pres     == Presentation(data)
             capacite == Get(Get(pres, "Infrastructure", <<>>), "Capacite", <<>>)
         IN  Resp("issat", <<"I","S","S","A","T"," ","K","a","i","r","o","u","a","n",":">>,
                  <<Get(Get(pres, "Etablissement", <<>>), "Nom", <<>>),
                    Get(Get(pres, "Creation", <<>>), "Annee", <<>>),
                    Get(Get(pres, "Creation", <<>>), "Decret", <<>>),
                    Get(capacite, "Etudiants", <<>>),
                    Get(capacite, "Enseignants", <<>>)>>)
    ELSE Pass

\* The medium-confidence rule with "qa_answer is not None" for "qa_answer".
RuleQaMediumAnyAnswer(qa_answer, qa_score) ==
  IF qa_answer # None /\ AboveTenths(qa_score, MidBand)
    THEN Resp("qa_medium", <<"J","e"," ","p","e","n","s","e"," ","q","u","e"," ","t","u"," ","d","e","m","a","n","d","e","s",":">>, <<qa_answer>>)
    ELSE Pass

\* if qa_answer and qa_score > 0.5
RuleQaMedium(qa_answer, qa_score) ==
  IF Truthy(qa_answer) /\ AboveTenths(qa_score, MidBand)
    THEN Resp("qa_medium", <<"J","e"," ","p","e","n","s","e"," ","q","u","e"," ","t","u"," ","d","e","m","a","n","d","e","s",":">>, <<qa_answer>>)
    ELSE Pass

\* The default fallback.
Default == Resp("default", <<"J","e"," ","n","'","a","i"," ","p","a","s"," ","b","i","e","n"," ","c","o","m","p","r","i","s"," ","t","a"," ","q","u","e","s","t","i","o","n",".",".",".">>, <<>>)

\* The rules with the greeting rule tried first.
RuleOrderGreetingFirst ==
  <<"greeting", "qa_high", "licence", "master", "organigramme",
    "coefficient", "automatique", "director", "attestation", "reclamation",
    "absence", "issat", "qa_medium">>

\* The rules with the medium-confidence rule tried right after the
\* high-confidence rule.
RuleOrderMediumFirst ==
  <<"qa_high", "qa_medium", "greeting", "licence", "master", "organigramme",
    "coefficient", "automatique", "director", "attestation", "reclamation",
    "absence", "issat">>

\* The rules in the order the code tries them.
RuleOrder ==
  <<"qa_high", "greeting", "licence", "master", "organigramme",
    "coefficient", "automatique", "director", "attestation", "reclamation",
    "absence", "issat", "qa_medium">>

\* What one rule returns: a response, or Pass.
Rule(name, question_lower, question_words, data, qa) ==
  CASE name = "qa_high"      -> RuleQaHigh(qa[1], qa[2])
    [] name = "greeting"     -> RuleGreeting(question_lower, question_words)
    [] name = "licence"      -> RuleLicence(question_lower, data)
    [] name = "master"       -> RuleMaster(question_lower, data)
    [] name = "organigramme" -> RuleOrganigramme(question_lower, data)
    [] name = "coefficient"  -> RuleCoefficient(question_lower)
    [] name = "automatique"  -> RuleAutomatique(question_lower, data)
    [] name = "director"     -> RuleDirector(question_lower, data)
    [] name = "attestation"  -> RuleAttestation(question_lower, data)
    [] name = "reclamation"  -> RuleReclamation(question_lower, data)
    [] name = "absence"      -> RuleAbsence(question_lower, data)
    [] name = "issat"        -> RuleIssat(question_lower, data)
    [] name = "qa_medium"    -> RuleQaMedium(qa[1], qa[2])

\* The rule chain giving up after the rule that follows the
\* high-confidence rule.
RuleChainStopsEarly(order, question_lower, question_words, data, qa) ==
  LET r1 == Rule(order[1], question_lower, question_words, data, qa)
      r2 == Rule(order[2], question_lower, question_words, data, qa)
  IN  IF r1 # Pass THEN r1 ELSE IF r2 # Pass THEN r2 ELSE Default

RECURSIVE RuleChain(_, _, _, _, _)
\* The response of the first rule that returns one, else the default.
RuleChain(order, question_lower, question_words, data, qa) ==
  IF order = <<>> THEN Default
  ELSE LET r == Rule(Head(order), question_lower, question_words, data, qa)
       IN  IF r # Pass THEN r
           ELSE RuleChain(Tail(order), question_lower, question_words, data, qa)

\* The rule chain of get_smart_response once qa == <<qa_answer, qa_score>>
\* is known.
Route(question, data, qa) ==
  RuleChain(RuleOrder, lower(question), WordSet(normalize_text(question)),
            data, qa)

\* get_smart_response(user_question, all_data, qa_data)
get_smart_response(question, data, bank) ==
  Route(question, data, find_best_qa_match(question, bank))

(***************************************************************************)
(* The loaded data: the structured data sets and the Q&A bank.             *)
(***************************************************************************)
\* Semester n of the master: three units, one sub-course without practical
\* hours, one unit without labels and one unit without sub-courses.  Its
\* practical hours sum to 21 * n + 21.
Semester(n) ==
  [Semestre |-> n,
   Total_Credits |-> 30,
   Total_Volume_Horaire_Presentiel |-> 300 + n,
   Unites_Enseignement |->
     <<[Libelle_UE |-> <<"U","E","F">> \o Str(n), Cr_UE |-> 6,
        ECUEs |-> <<[Libelle_ECUE |-> <<"A","t","e","l","i","e","r">>, Cr_ECUE |-> 3,
                     Cours |-> 21, TD |-> 10, TP |-> 21 * n],
                    [Libelle_ECUE |-> <<"C","o","m","m","a","n","d","e">>, Cours |-> 42]>>],
       [ECUEs |-> <<[TP |-> 21]>>],
       [Libelle_UE |-> <<"U","E","T">>]>>]

\* A semester without any field.
BareSemester == [x \in {} |-> 0]

\* The master 'automatique' with its first k semesters, named by Parcours
\* or by Mention only.
Automatique(k, field) ==
  [f \in {field, "Semestres"} |->
     IF f = "Semestres" THEN [n \in 1..k |-> Semester(n)]
     ELSE <<"A","u","t","o","m","a","t","i","q","u","e"," ","e","t"," ","I","I">>]

\* A program that the fragment 'automatique' does not match.
OtherMaster == [Parcours |-> <<"D","a","t","a"," ","S","c","i","e","n","c","e">>, Semestres |-> <<BareSemester>>]

\* The values of master_recherche.json.
MasterChoices ==
  {<<OtherMaster, Automatique(k, "Parcours")>> : k \in 0..MaxSemesters}
  \cup {<<Automatique(2, "Mention")>>, <<OtherMaster>>}

FullPresentation ==
  [Presentation |->
     [Formations |-> [Licences |-> <<<<"L","i","c","e","n","c","e"," ","I","S","I">>, <<"L","i","c","e","n","c","e"," ","E","E","A">>>>,
                      Masters_Recherche |-> <<<<"M","a","s","t","e","r"," ","A","u","t","o","m","a","t","i","q","u","e">>>>],
      Direction |-> [Directeur |-> <<"P","r","."," ","Y">>],
      Etablissement |-> [Nom |-> <<"I","S","S","A","T">>],
      Creation |-> [Annee |-> <<"2","0","0","5">>]]]

AdminProcedures ==
  <<[id |-> <<"r","e","c","l","a","m","a","t","i","o","n","_","n","o","t","e","s">>, description |-> <<"R","e","v","o","i","r"," ","u","n","e"," ","n","o","t","e">>,
     steps |-> <<<<"1","."," ","R","e","m","p","l","i","r">>, <<"2","."," ","D","e","p","o","s","e","r">>>>],
    [title |-> <<"S","a","n","s"," ","i","d">>],
    [id |-> <<"a","t","t","e","s","t","a","t","i","o","n","_","p","r","e","s","e","n","c","e">>, documents |-> <<<<"C","a","r","t","e">>>>,
     cost |-> <<"G","r","a","t","u","i","t">>]>>

AbsencesRules == [difference |-> <<"A","\n","B">>, deadlines |-> <<"4","8","h">>]

\* all_data after loading: a file that is missing or empty has no key.
DataSets ==
  {[master_recherche |-> m, presentation |-> FullPresentation,
    admin_procedures |-> AdminProcedures,
    absences_rules |-> AbsencesRules] : m \in MasterChoices}
  \cup {[master_recherche |-> <<Automatique(1, "Parcours")>>],
        [presentation |-> FullPresentation],
        [presentation |-> [Presentation |-> [Direction |-> <<>>]]],
        <<>>}

qa_directeur == [question |-> <<"Q","u","i"," ","e","s","t"," ","l","e"," ","d","i","r","e","c","t","e","u","r","?">>, answer |-> <<"D","r","."," ","X">>]

qa_bonjour == [question |-> <<"B","o","n","j","o","u","r">>, answer |-> <<"A","h","l","a","!">>, keywords |-> <<<<"T","P">>>>]

qa_empty == [question |-> <<"z","z","z">>, answer |-> <<>>, keywords |-> <<>>]

qa_tp ==
  [question |-> <<"H","e","u","r","e","s"," ","T","P">>, answer |-> <<"V","o","i","r"," ","l","e"," ","p","l","a","n">>,
   keywords |-> <<<<"t","p">>, <<"a","u","t","o","m","a","t","i","q","u","e">>, <<"h","e","u","r","e","s"," ","t","p">>>>]

\* The values of the Q&A bank: the categories in mapping order.  A missing
\* file gives the empty bank.
Banks ==
  {<<>>,
   <<<<qa_directeur>>>>,
   <<<<qa_empty>>, <<>>, <<qa_bonjour, qa_tp>>>>}

(***************************************************************************)
(* The utterances: a greeting, a program, an hour type, a semester and a   *)
(* topic, each optional, and filler words, separated by spaces.            *)
(***************************************************************************)
Greetings == {<<>>, <<"B","o","n","j","o","u","r">>, <<"h","i">>}

ProgramNames == {<<>>, <<"a","u","t","o","m","a","t","i","q","u","e">>, <<"I","n","f","o","r","m","a","t","i","q","u","e"," ","I","n","d","u","s","t","r","i","e","l","l","e">>}

HourTypes == {<<>>, <<"T","P">>, <<"t","d">>}

SemesterNames == {<<>>, <<"s","1">>, <<"s","e","m","e","s","t","r","e"," ","2">>, <<"s","e","m","e","s","t","r","e"," ","3">>}

Topics ==
  {<<>>, <<"l","i","s","t","e"," ","m","a","s","t","e","r">>, <<"q","u","e","l"," ","l","i","c","e","n","c","e">>, <<"d","i","r","e","c","t","e","u","r">>, <<"Q","u","i"," ","e","s","t"," ","l","e"," ","d","i","r","e","c","t","e","u","r","?">>,
   <<"c","o","e","f","f","i","c","i","e","n","t">>, <<"c","r","é","d","i","t">>, <<"a","b","s","e","n","c","e">>, <<"a","t","t","e","s","t","a","t","i","o","n"," ","p","r","é","s","e","n","c","e">>, <<"z","z","z">>}

\* The filler word, r times.
Pad(r) == [i \in 1..r |-> <<"m","o","t">>]

\* ' '.join of the parts that are not empty
Sentence(parts) == Join(<<" ">>, SelectSeq(parts, LAMBDA w : w # <<>>))

ProgramQuestions ==
  {Sentence(<<g, p, h, s>> \o Pad(r)) :
     g \in Greetings, p \in ProgramNames, h \in HourTypes,
     s \in SemesterNames, r \in 0..MaxPad}

TopicQuestions ==
  {Sentence(<<g, t, p>> \o Pad(r)) :
     g \in {<<>>, <<"B","o","n","j","o","u","r">>}, t \in Topics, p \in ProgramNames,
     r \in 0..MaxPad}

Utterances == ProgramQuestions \cup TopicQuestions

(***************************************************************************)
(* The state machine.                                                      *)
(***************************************************************************)
\* The data is loaded once, at import; the transcript starts empty.
Loaded ==
  /\ all_data \in DataSets
  /\ qa_data \in Banks
  /\ conversations = <<>>

\* No direct call of normalize_text or calculate_master_stats is under way.
NoDirectCall ==
  /\ norm_text = <<>>
  /\ name_fragment = <<>>
  /\ master_stats = NoDict

\* A call get_smart_response(user_question, all_data, qa_data) about to
\* be made, on any utterance.
Init ==
  /\ Loaded
  /\ user_question \in Utterances
  /\ qa_match = <<None, Zero>>
  /\ response = Pass
  /\ NoDirectCall
  /\ pc = "call"

\* The call: qa_match is <<qa_answer, qa_score>> of line 143.
Respond ==
  /\ pc = "call"
  /\ LET qa == find_best_qa_match(user_question, qa_data)
     IN  /\ qa_match' = qa
         /\ response' = Route(user_question, all_data, qa)
  /\ pc' = "done"
  /\ UNCHANGED <<all_data, qa_data, conversations, user_question>>
  /\ UNCHANGED <<norm_text, name_fragment, master_stats>>

Next == Respond

Spec == Init /\ [][Next]_vars

(***************************************************************************)
(* The request handler home, serving requests one after the other.         *)
(***************************************************************************)
\* str.strip()
RECURSIVE lstrip(_)
lstrip(text) ==
  IF text # <<>> /\ Head(text) \in Whitespace THEN lstrip(Tail(text)) ELSE text

RECURSIVE rstrip(_)
rstrip(text) ==
  IF text # <<>> /\ text[Len(text)] \in Whitespace
    THEN rstrip(SubSeq(text, 1, Len(text) - 1))
    ELSE text

strip(text) == rstrip(lstrip(text))

\* The values of the form field q.
Messages ==
  {<<>>, <<" ">>, <<"h","i">>, <<" ","B","o","n","j","o","u","r","\n">>, <<"d","i","r","e","c","t","e","u","r">>, <<"a","u","t","o","m","a","t","i","q","u","e"," ","T","P"," ","s","2">>, <<"z","z","z"," ","m","o","t">>}

Turn(type, content) == [type |-> type, content |-> content]

InitHome ==
  /\ Loaded
  /\ user_question = <<>>
  /\ qa_match = <<None, Zero>>
  /\ response = Pass
  /\ NoDirectCall
  /\ pc = "serve"

\* A GET request: the transcript is rendered, nothing changes.
HomeGet ==
  /\ pc = "serve"
  /\ UNCHANGED vars

\* A POST request with the form field q = msg.  A blank message is
\* ignored.  Otherwise the user turn is appended, then the response is
\* computed and the bot turn is appended; an exception of
\* get_smart_response leaves the user turn without a bot turn.
HomePost(msg) ==
  /\ pc = "serve"
  /\ Len(conversations) < 2 * MaxRequests
  /\ LET user_msg == strip(msg)
         qa       == find_best_qa_match(user_msg, qa_data)
         answer   == Route(user_msg, all_data, qa)
     IN  IF user_msg = <<>>
           THEN UNCHANGED <<conversations, user_question, qa_match, response>>
           ELSE /\ user_question' = user_msg
                /\ qa_match' = qa
                /\ response' = answer
                /\ conversations' =
                     IF answer.tpl = "IndexError"
                       THEN Append(conversations, Turn("user", user_msg))
                       ELSE conversations
                            \o <<Turn("user", user_msg), Turn("bot", answer)>>
  /\ UNCHANGED <<all_data, qa_data, pc, norm_text, name_fragment, master_stats>>

NextHome == HomeGet \/ \E msg \in Messages : HomePost(msg)

SpecHome == InitHome /\ [][NextHome]_vars

(***************************************************************************)
(* Properties of get_smart_response, read off the state after a call.      *)
(***************************************************************************)
Done == pc = "done"

question_lower == lower(user_question)

question_norm == normalize_text(user_question)

qa_answer == qa_match[1]

qa_score == qa_match[2]

\* The call ended in an uncaught exception.
Raised == response.tpl = "IndexError"

\* The stats of the program 'automatique' in the loaded data.
LoadedStats ==
  calculate_master_stats(Get(all_data, "master_recherche", <<>>), <<"a","u","t","o","m","a","t","i","q","u","e">>)

\* The keyword lists of the hour-type tests.
TpWords == <<<<"t","p">>, <<"t","r","a","v","a","u","x"," ","p","r","a","t","i","q","u","e","s">>, <<"p","r","a","t","i","q","u","e">>>>

VolumeWords == <<<<"c","o","u","r","s">>, <<"t","d">>, <<"h","e","u","r","e","s"," ","c","o","u","r","s">>, <<"v","o","l","u","m","e"," ","h","o","r","a","i","r","e">>>>

\* The utterance names semester n, as 'semestre n' or 'sn'.
NamesSemester(n) ==
  \/ Contains(<<"s","e","m","e","s","t","r","e"," ">> \o Str(n), question_lower)
  \/ Contains(<<"s">> \o Str(n), question_lower)

\* The templates of the rules tried before the director rule.
BeforeDirector ==
  {"qa_high", "greeting", "licence_list", "licence_isi", "master_list",
   "organigramme", "coefficient", "tp_semester", "tp_total",
   "volume_semester", "credits", "courses", "IndexError"}

\* No rule between the high-confidence rule and the medium-confidence rule
\* returns a response.
NoRuleResponds ==
  \A i \in 2..(Len(RuleOrder) - 1) :
     Rule(RuleOrder[i], question_lower, WordSet(question_norm), all_data,
          qa_match) = Pass

\* C1: every call of get_smart_response returns normally, and what it
\* returns is a non-empty text.
C1_AlwaysAnswers ==
  Done => ~Raised /\ response.heading # <<>>

\* C2: a best match with a score above 0.7 is returned in the 'Réponse'
\* wrapper, whatever else the utterance contains.
C2_HighScoreReturned ==
  Done /\ AboveTenths(qa_score, HighBand)
    => response = Resp("qa_high", <<"R","é","p","o","n","s","e",":">>, <<qa_answer>>)

\* C2 (amended): a best match with a score above 0.7 and a non-empty answer
\* is returned in the 'Réponse' wrapper, whatever else the utterance
\* contains; the answer is the answer of a record of the bank.
C2_HighScoreNonEmptyReturned ==
  Done /\ AboveTenths(qa_score, HighBand) /\ Truthy(qa_answer)
    => /\ response = Resp("qa_high", <<"R","é","p","o","n","s","e",":">>, <<qa_answer>>)
       /\ \E qa \in Range(Flatten(qa_data)) : qa.answer = response.args[1]

\* A high-confidence answer wins over a greeting and over a program query.
C2_Witness ==
  /\ Done
  /\ response.tpl = "qa_high"
  /\ AnyIn(greeting_words, question_lower)
  /\ Contains(<<"a","u","t","o","m","a","t","i","q","u","e">>, question_lower)
  /\ Cardinality(WordSet(question_norm)) <= GreetingMaxWords

\* C3: a greeting word together with a program name and an hour-type
\* keyword, without a high-confidence match and with the stats of the
\* program available, is answered by an hour response of the program,
\* never by the greeting.
C3_GreetingYieldsToProgram ==
  /\ Done
  /\ AnyIn(greeting_words, question_lower)
  /\ Contains(<<"a","u","t","o","m","a","t","i","q","u","e">>, question_lower)
  /\ AnyIn(TpWords, question_lower) \/ AnyIn(VolumeWords, question_lower)
  /\ ~AboveTenths(qa_score, HighBand)
  /\ LoadedStats # NoDict
  => response.tpl \in {"tp_semester", "tp_total", "volume_semester"}

\* C4: an utterance that names a program never gets the licence listing
\* or the master listing.
C4_NoListingForProgram ==
  Done /\ NamesProgram(question_lower)
    => response.tpl \notin {"licence_list", "master_list"}

\* C5: 'directeur' in the utterance, a score not above 0.7 and no response
\* of an earlier rule: the response is the director template with the
\* structured Direction.Directeur, not the bank answer.
C5_DirectorBeforeMedium ==
  /\ Done
  /\ Contains(<<"d","i","r","e","c","t","e","u","r">>, question_lower)
  /\ ~AboveTenths(qa_score, HighBand)
  /\ response.tpl \notin BeforeDirector
  => /\ response.tpl = "director"
     /\ LET dir == Get(Presentation(all_data), "Direction", <<>>)
        IN  response.args[1] =
              IF "Directeur" \in DOMAIN dir THEN dir.Directeur
              ELSE <<"N","o","n"," ","d","i","s","p","o","n","i","b","l","e">>

\* The director rule answers although the bank has a medium-confidence
\* answer.
C5_Witness ==
  /\ Done
  /\ response.tpl = "director"
  /\ Truthy(qa_answer)
  /\ AboveTenths(qa_score, MidBand)
  /\ ~AboveTenths(qa_score, HighBand)
  /\ response.args[1] = <<"P","r","."," ","Y">>

NoSemester ==
  /\ \A n \in 1..4 : ~NamesSemester(n)
  /\ ~AnyIn(<<<<"s","e","m","e","s","t","r","e">>, <<"p","r","e","m","i","e","r">>, <<"d","e","u","x","i","è","m","e">>>>, question_lower)

\* C7: with the stats of the program available, an hour-type keyword and
\* no semester (no greeting, no high-confidence match, no listing
\* keyword), the response gives the total of the program for the category:
\* practical hours for a practical keyword, else tutorial hours for 'td'.
C7_ProgramWideTotals ==
  /\ Done
  /\ Contains(<<"a","u","t","o","m","a","t","i","q","u","e">>, question_lower)
  /\ LoadedStats # NoDict
  /\ NoSemester
  /\ ~AnyIn(greeting_words, question_lower)
  /\ ~AboveTenths(qa_score, HighBand)
  /\ ~Contains(<<"l","i","c","e","n","c","e">>, question_lower)
  => /\ AnyIn(TpWords, question_lower)
          => /\ response.tpl = "tp_total"
             /\ response.args[1] = Str(LoadedStats.total_tp_hours)
     /\ ~AnyIn(TpWords, question_lower) /\ Contains(<<"t","d">>, question_lower)
          => /\ response.args # <<>>
             /\ response.args[1] = Str(LoadedStats.total_td_hours)

\* C8: without a high-confidence match, the greeting template is returned
\* exactly when the utterance contains a greeting word and its normalized
\* form has at most 3 words.
C8_GreetingIffFewWords ==
  Done /\ ~AboveTenths(qa_score, HighBand)
    => (response.tpl = "greeting"
          <=> /\ AnyIn(greeting_words, question_lower)
              /\ Len(split(question_norm)) <= GreetingMaxWords)

\* C8 (amended): without a high-confidence match, the greeting template is
\* returned exactly when the utterance contains a greeting word and its
\* normalized form has at most 3 distinct words.
C8_GreetingIffFewDistinctWords ==
  Done /\ ~AboveTenths(qa_score, HighBand)
    => (response.tpl = "greeting"
          <=> /\ AnyIn(greeting_words, question_lower)
              /\ Cardinality(Range(split(question_norm))) <= GreetingMaxWords)

\* 'bonjour' with an empty bank gets the greeting template.
C8_Witness ==
  /\ Done
  /\ qa_data = <<>>
  /\ question_norm = <<"b","o","n","j","o","u","r">>
  /\ response.tpl = "greeting"

\* The keywords that trigger a rule.
TriggerWords ==
  greeting_words
  \o <<<<"l","i","c","e","n","c","e">>, <<"b","a","c","h","e","l","o","r">>, <<"m","a","s","t","e","r">>, <<"o","r","g","a","n","i","g","r","a","m","m","e">>, <<"s","t","r","u","c","t","u","r","e">>,
       <<"c","o","e","f","f","i","c","i","e","n","t">>, <<"a","u","t","o","m","a","t","i","q","u","e">>, <<"i","n","f","o","r","m","a","t","i","q","u","e"," ","i","n","d","u","s","t","r","i","e","l","l","e">>,
       <<"d","i","r","e","c","t","e","u","r">>, <<"d","i","r","e","c","t","o","r">>, <<"a","t","t","e","s","t","a","t","i","o","n">>, <<"r","é","c","l","a","m","a","t","i","o","n">>, <<"r","e","c","l","a","m","a","t","i","o","n">>,
       <<"a","b","s","e","n","c","e">>, <<"a","b","s","e","n","t">>, <<"j","u","s","t","i","f">>, <<"i","s","s","a","t">>, <<"i","n","s","t","i","t","u","t">>, <<"c","r","e","a","t","i","o","n">>,
       <<"c","r","é","é">>, <<"f","o","n","d","a","t","i","o","n">>>>

\* C9: an utterance without any trigger keyword and without a bank match
\* above 0.5 gets exactly the default template; and the default template
\* is returned only when no rule before it returns a response.
C9_DefaultIsTerminal ==
  /\ Done /\ ~AnyIn(TriggerWords, question_lower)
          /\ ~AboveTenths(qa_score, ReturnThreshold)
       => response = Resp("default", <<"J","e"," ","n","'","a","i"," ","p","a","s"," ","b","i","e","n"," ","c","o","m","p","r","i","s"," ","t","a"," ","q","u","e","s","t","i","o","n",".",".",".">>, <<>>)
  /\ Done /\ response.tpl = "default"
       => /\ ~(Truthy(qa_answer) /\ AboveTenths(qa_score, MidBand))
          /\ NoRuleResponds

\* The default template for an utterance that is not empty.
C9_Witness ==
  /\ Done
  /\ response.tpl = "default"
  /\ ~AnyIn(TriggerWords, question_lower)
  /\ Len(split(question_norm)) >= 2
  /\ qa_data # <<>>

\* C10: the disclaimer answer is returned exactly when the best score is
\* above 0.5, not above 0.7, and no rule before it returns a response.
C10_DisclaimerIffMidBand ==
  Done
    => (response.tpl = "qa_medium"
          <=> /\ AboveTenths(qa_score, MidBand)
              /\ ~AboveTenths(qa_score, HighBand)
              /\ NoRuleResponds)

\* C10 (amended): the disclaimer answer is returned exactly when the best
\* score is above 0.5, not above 0.7, the answer of the best match is not
\* empty and no rule before it returns a response; it then carries that
\* answer.
C10_DisclaimerIffMidBandNonEmpty ==
  Done
    => /\ response.tpl = "qa_medium"
            <=> /\ AboveTenths(qa_score, MidBand)
                /\ ~AboveTenths(qa_score, HighBand)
                /\ Truthy(qa_answer)
                /\ NoRuleResponds
       /\ response.tpl = "qa_medium"
            => response = Resp("qa_medium", <<"J","e"," ","p","e","n","s","e"," ","q","u","e"," ","t","u"," ","d","e","m","a","n","d","e","s",":">>,
                               <<qa_answer>>)

\* The disclaimer answer is returned.
C10_Witness ==
  /\ Done
  /\ response.tpl = "qa_medium"
  /\ response.args = <<<<"V","o","i","r"," ","l","e"," ","p","l","a","n">>>>

(***************************************************************************)
(* Direct calls of the text normalizer.                                    *)
(***************************************************************************)
\* Largest length of a text given to normalize_text.
MaxText == 3

\* The characters of the texts: upper and lower case letters, an accented
\* letter, digits, punctuation and whitespace.
Alphabet == {"A", "b", "É", "3", "7", "!", " ", "\n"}

RECURSIVE TextsOfLen(_)
\* The texts of n characters.
TextsOfLen(n) ==
  IF n = 0 THEN {<<>>}
  ELSE {<<c>> \o t : c \in Alphabet, t \in TextsOfLen(n - 1)}

Texts == UNION {TextsOfLen(n) : n \in 0..MaxText}

\* No request has been served and no call of get_smart_response made.
NoRequest ==
  /\ conversations = <<>>
  /\ qa_match = <<None, Zero>>
  /\ response = Pass

\* A call normalize_text(user_question) about to be made: norm_text is the
\* variable text of the call.
InitNormalize ==
  /\ all_data = <<>>
  /\ qa_data = <<>>
  /\ NoRequest
  /\ user_question \in Texts
  /\ norm_text = user_question
  /\ name_fragment = <<>>
  /\ master_stats = NoDict
  /\ pc = "normalize"

\* The call: norm_text is what it returns.
Normalize ==
  /\ pc = "normalize"
  /\ norm_text' = normalize_text(norm_text)
  /\ pc' = "normalized"
  /\ UNCHANGED <<all_data, qa_data, conversations, user_question, qa_match,
                 response, name_fragment, master_stats>>

NextNormalize == Normalize

SpecNormalize == InitNormalize /\ [][NextNormalize]_vars

(***************************************************************************)
(* Direct calls of the program statistics aggregator.                      *)
(***************************************************************************)
\* Largest number of program records of master_recherche.json.
MaxPrograms == 2

\* A program named by both fields: only its Mention holds 'automatique',
\* in upper case.  Its semester has no credits and one unit without hours.
Robotique ==
  [Parcours |-> <<"R","o","b","o","t","i","q","u","e">>, Mention |-> <<"A","U","T","O","M","A","T","I","Q","U","E">>,
   Semestres |-> <<[Semestre |-> 1,
                    Unites_Enseignement |-> <<[ECUEs |-> <<[Cr_ECUE |-> 2]>>]>>],
                   Semester(2)>>]

\* A program without Parcours and without Mention.
Unnamed == [Semestres |-> <<Semester(3)>>]

\* A program without semesters.
NoSemesters == [Parcours |-> <<"A","u","t","o","m","a","t","i","q","u","e"," ","a","v","a","n","c","é","e">>]

\* The program records.
Programs ==
  {Automatique(k, "Parcours") : k \in 0..MaxSemesters}
  \cup {Automatique(2, "Mention"), OtherMaster, Robotique, Unnamed,
        NoSemesters}

RECURSIVE ProgramLists(_)
\* The lists of n program records.
ProgramLists(n) ==
  IF n = 0 THEN {<<>>}
  ELSE {<<p>> \o l : p \in Programs, l \in ProgramLists(n - 1)}

\* The name fragments: the one get_smart_response gives, in lower and in
\* upper case, fragments of other names and the empty text.
Fragments == {<<"a","u","t","o","m","a","t","i","q","u","e">>, <<"A","U","T","O">>, <<"d","a","t","a"," ","s","c","i">>, <<"r","o","b","o","t">>, <<"p","h","y","s","i","q","u","e">>, <<>>}

\* A call calculate_master_stats(master_data, name_fragment) about to be
\* made, master_data being all_data['master_recherche'].
InitStats ==
  /\ all_data \in {[master_recherche |-> l] :
                     l \in UNION {ProgramLists(n) : n \in 0..MaxPrograms}}
  /\ qa_data = <<>>
  /\ NoRequest
  /\ user_question = <<>>
  /\ norm_text = <<>>
  /\ name_fragment \in Fragments
  /\ master_stats = NoDict
  /\ pc = "stats"

\* The call: master_stats is what it returns.
Stats ==
  /\ pc = "stats"
  /\ master_stats' =
       calculate_master_stats(all_data.master_recherche, name_fragment)
  /\ pc' = "stats_done"
  /\ UNCHANGED <<all_data, qa_data, conversations, user_question, qa_match,
                 response, norm_text, name_fragment>>

NextStats == Stats

SpecStats == InitStats /\ [][NextStats]_vars

(***************************************************************************)
(* Direct calls of the Q&A matcher.                                        *)
(***************************************************************************)
\* Largest number of records of the Q&A bank.
MaxRecords == 3

\* Two records with the same question, one without keywords.
qa_first == [question |-> <<"t","p">>, answer |-> <<"A","1">>]

qa_second == [question |-> <<"T","P","?">>, answer |-> <<"A","2">>, keywords |-> <<<<"x","x">>>>]

\* Records with two and with three keywords.
qa_hours ==
  [question |-> <<"h","e","u","r","e","s"," ","t","p">>, answer |-> <<"A","3">>, keywords |-> <<<<"t","p">>, <<"h","e","u","r","e","s">>>>]

qa_keywords ==
  [question |-> <<"z","z","z">>, answer |-> <<"A","4">>,
   keywords |-> <<<<"h","e","u","r","e","s"," ","t","p">>, <<"T","P">>, <<"s","1">>>>]

Records == {qa_first, qa_second, qa_hours, qa_keywords}

RECURSIVE RecordLists(_)
\* The lists of n records.
RecordLists(n) ==
  IF n = 0 THEN {<<>>}
  ELSE {<<qa>> \o l : qa \in Records, l \in RecordLists(n - 1)}

\* The banks that hold the records of a list in this order: in one
\* category, in one category each, after an empty category, and in two
\* categories around an empty one.
BanksOf(records) ==
  LET k == IF records = <<>> THEN 0 ELSE 1
  IN  {<<records>>,
       [i \in 1..Len(records) |-> <<records[i]>>],
       <<<<>>, records>>,
       <<SubSeq(records, 1, k), <<>>, SubSeq(records, k + 1, Len(records))>>}

MatchBanks ==
  UNION {BanksOf(l) : l \in UNION {RecordLists(n) : n \in 0..MaxRecords}}

MatchQuestions ==
  {<<>>, <<"t","p">>, <<"T","P","!">>, <<"x","x">>, <<"h","e","u","r","e","s">>, <<"h","e","u","r","e","s"," ","t","p">>, <<"t","p"," ","s","1"," ","h","e","u","r","e","s">>, <<"z","z","z"," ","x","x">>}

\* A call find_best_qa_match(user_question, qa_data) about to be made.
InitMatch ==
  /\ all_data = <<>>
  /\ qa_data \in MatchBanks
  /\ NoRequest
  /\ user_question \in MatchQuestions
  /\ norm_text = <<>>
  /\ name_fragment = <<>>
  /\ master_stats = NoDict
  /\ pc = "match"

\* The call: qa_match is the pair it returns.
Match ==
  /\ pc = "match"
  /\ qa_match' = find_best_qa_match(user_question, qa_data)
  /\ pc' = "matched"
  /\ UNCHANGED <<all_data, qa_data, conversations, user_question, response,
                 norm_text, name_fragment, master_stats>>

NextMatch == Match

SpecMatch == InitMatch /\ [][NextMatch]_vars

(***************************************************************************)
(* Calls of the three functions and requests, in any order, on the data    *)
(* loaded at import.                                                       *)
(***************************************************************************)
\* The utterances and the name fragments of the calls.
CallQuestions == {<<"h","i">>, <<"a","u","t","o","m","a","t","i","q","u","e"," ","T","P"," ","s","2">>}

CallFragments == {<<"a","u","t","o","m","a","t","i","q","u","e">>, <<"p","h","y","s","i","q","u","e">>}

InitCalls ==
  /\ all_data \in {[master_recherche |-> <<OtherMaster, Automatique(k, "Parcours")>>,
                    presentation |-> FullPresentation] : k \in 1..2}
  /\ qa_data \in Banks
  /\ conversations = <<>>
  /\ user_question = <<>>
  /\ qa_match = <<None, Zero>>
  /\ response = Pass
  /\ NoDirectCall
  /\ pc = "serve"

\* A call find_best_qa_match(question, qa_data).
CallMatch(question) ==
  /\ pc = "serve"
  /\ user_question' = question
  /\ qa_match' = find_best_qa_match(question, qa_data)
  /\ UNCHANGED <<all_data, qa_data, conversations, response, norm_text,
                 name_fragment, master_stats, pc>>

\* A call calculate_master_stats(all_data['master_recherche'], fragment).
CallStats(fragment) ==
  /\ pc = "serve"
  /\ name_fragment' = fragment
  /\ master_stats' = calculate_master_stats(all_data.master_recherche, fragment)
  /\ UNCHANGED <<all_data, qa_data, conversations, user_question, qa_match,
                 response, norm_text, pc>>

\* A call get_smart_response(question, all_data, qa_data) that appends
\* its answer to the transcript.
CallRespondLogsTurn(question) ==
  /\ pc = "serve"
  /\ user_question' = question
  /\ qa_match' = find_best_qa_match(question, qa_data)
  /\ response' = get_smart_response(question, all_data, qa_data)
  /\ conversations' = Append(conversations, Turn("bot", response'))
  /\ UNCHANGED <<all_data, qa_data, norm_text, name_fragment, master_stats, pc>>

\* A call get_smart_response(question, all_data, qa_data).
CallRespond(question) ==
  /\ pc = "serve"
  /\ user_question' = question
  /\ qa_match' = find_best_qa_match(question, qa_data)
  /\ response' = get_smart_response(question, all_data, qa_data)
  /\ UNCHANGED <<all_data, qa_data, conversations, norm_text, name_fragment,
                 master_stats, pc>>

NextCalls ==
  \/ \E question \in CallQuestions : CallMatch(question)
  \/ \E fragment \in CallFragments : CallStats(fragment)
  \/ \E question \in CallQuestions : CallRespond(question)
  \/ \E msg \in CallQuestions : HomePost(msg)
  \/ HomeGet

SpecCalls == InitCalls /\ [][NextCalls]_vars

(***************************************************************************)
(* Properties of normalize_text.                                           *)
(***************************************************************************)
\* C14: what normalize_text returns is left unchanged by normalize_text,
\* and it holds only characters of [a-z0-9] and whitespace, none of them
\* a '3'.
C14_NormalizeIdempotent ==
  pc = "normalized"
    => /\ normalize_text(norm_text) = norm_text
       /\ \A i \in 1..Len(norm_text) :
            norm_text[i] \in (AlphaNum \cup Whitespace) \ {"3"}

\* A text with an upper case letter, a '3', punctuation and whitespace has
\* been normalized.
C14_Witness ==
  /\ pc = "normalized"
  /\ user_question = <<"A","3","!">>
  /\ norm_text = <<"a","a">>

(***************************************************************************)
(* Properties of calculate_master_stats, read off the state after a call.  *)
(***************************************************************************)
\* The list of program records of the call.
master_data == all_data.master_recherche

\* The name fragment is in the text, whatever the case of the letters.
Mentions(name) == Contains(lower(name_fragment), lower(name))

\* The positions of the program records that name the fragment in Parcours
\* or in Mention, an absent field being the empty text.
Matching ==
  {i \in 1..Len(master_data) :
     \/ Mentions(Get(master_data[i], "Parcours", <<>>))
     \/ Mentions(Get(master_data[i], "Mention", <<>>))}

\* The first program record that matches.
FirstMatch == master_data[CHOOSE i \in Matching : \A j \in Matching : i <= j]

RECURSIVE SumFn(_)
\* The sum of the values of a function with a finite domain.
SumFn(f) ==
  IF DOMAIN f = {} THEN 0
  ELSE LET x == CHOOSE y \in DOMAIN f : TRUE
       IN  f[x] + SumFn([y \in DOMAIN f \ {x} |-> f[y]])

\* The units of a semester record and the sub-courses of a unit record.
UnitsOf(sem) == Get(sem, "Unites_Enseignement", <<>>)

EcuesOf(ue) == Get(ue, "ECUEs", <<>>)

\* The sub-courses of a semester record, as <<unit, sub-course>> positions.
SubCourses(sem) ==
  UNION {{<<u, e>> : e \in 1..Len(EcuesOf(UnitsOf(sem)[u]))} :
           u \in 1..Len(UnitsOf(sem))}

\* The hours of one kind ("TP", "Cours" or "TD") of a semester record, an
\* absent field counting for zero.
HoursOf(sem, kind) ==
  SumFn([p \in SubCourses(sem) |->
           Get(EcuesOf(UnitsOf(sem)[p[1]])[p[2]], kind, 0)])

\* The semester records of the first program that matches.
MatchedSemesters == Get(FirstMatch, "Semestres", <<>>)

\* The hours of one kind of all the semesters of the matched program.
ProgramHours(kind) ==
  SumFn([s \in 1..Len(MatchedSemesters) |-> HoursOf(MatchedSemesters[s], kind)])

\* C11: the stats returned for a matched program hold the sum of the
\* semesters' Total_Credits, the sums of TP, Cours and TD over all the
\* sub-courses of the program, and for each semester the sums over its own
\* sub-courses, an absent field counting for zero.
C11_SumsOfChildren ==
  pc = "stats_done" /\ Matching # {}
    => /\ master_stats # NoDict
       /\ master_stats.total_credits =
            SumFn([s \in 1..Len(MatchedSemesters) |->
                     Get(MatchedSemesters[s], "Total_Credits", 0)])
       /\ master_stats.total_tp_hours = ProgramHours("TP")
       /\ master_stats.total_cours_hours = ProgramHours("Cours")
       /\ master_stats.total_td_hours = ProgramHours("TD")
       /\ Len(master_stats.semesters) = Len(MatchedSemesters)
       /\ \A s \in 1..Len(MatchedSemesters) :
            /\ master_stats.semesters[s].tp_hours =
                 HoursOf(MatchedSemesters[s], "TP")
            /\ master_stats.semesters[s].cours_hours =
                 HoursOf(MatchedSemesters[s], "Cours")
            /\ master_stats.semesters[s].td_hours =
                 HoursOf(MatchedSemesters[s], "TD")

\* The stats of a program of two semesters, the first without credits and
\* without hours, the second with hours in two units and a sub-course
\* without practical hours.
C11_Witness ==
  /\ pc = "stats_done"
  /\ Matching # {}
  /\ FirstMatch = Robotique
  /\ master_stats # NoDict
  /\ master_stats.total_credits = 30
  /\ master_stats.total_tp_hours = 63
  /\ master_stats.semesters[1].tp_hours = 0

\* C12: the stats returned are those of the first program, in list order,
\* that names the fragment in Parcours or in Mention, whatever the case of
\* the letters; a program without these fields does not match a fragment
\* that is not empty; None is returned exactly when no program matches.
C12_FirstMatchWins ==
  pc = "stats_done"
    => /\ master_stats = NoDict <=> Matching = {}
       /\ Matching # {} => master_stats = MasterStats(FirstMatch)
       /\ Matching # {} /\ name_fragment # <<>>
            => {"Parcours", "Mention"} \cap DOMAIN FirstMatch # {}

\* Two programs match the fragment, the first one by its Mention only and
\* in another case.
C12_Witness ==
  /\ pc = "stats_done"
  /\ name_fragment = <<"A","U","T","O">>
  /\ master_data = <<Robotique, Automatique(1, "Parcours")>>
  /\ master_stats = MasterStats(Robotique)
  /\ master_stats # MasterStats(Automatique(1, "Parcours"))

(***************************************************************************)
(* Properties of find_best_qa_match, read off the state after a call.      *)
(***************************************************************************)
\* The records of the bank in scan order.
Scanned == Flatten(qa_data)

\* The total score of the record at a position of the scan.
ScoreAt(i) ==
  total_score(Scanned[i], normalize_text(user_question),
              WordSet(normalize_text(user_question)))

\* An answer was returned.
Matched == pc = "matched" /\ qa_match # <<None, Zero>>

\* The pair returned is the answer and the total score of the record at
\* position i.
ReturnedAt(i) == qa_match = <<Scanned[i].answer, ScoreAt(i)>>

\* x <= 1 + 0.75 * k
AtMostBonus(x, k) == 4 * x.num <= (4 + 3 * k) * x.den

\* C13: the matcher returns (None, 0), or the answer of a record with a
\* score above 0.5 and at most 1 + 0.75 * k, k being the number of keywords
\* of that record; it returns (None, 0) when the bank holds no record.
C13_ScoreWithinBounds ==
  pc = "matched"
    => /\ \/ qa_match = <<None, Zero>>
          \/ \E i \in 1..Len(Scanned) :
               /\ ReturnedAt(i)
               /\ AboveTenths(qa_match[2], ReturnThreshold)
               /\ AtMostBonus(qa_match[2],
                              Len(Get(Scanned[i], "keywords", <<>>)))
       /\ Scanned = <<>> => qa_match = <<None, Zero>>

\* A record whose question is the utterance and whose two keywords are both
\* in it is returned with the largest score two keywords allow, 2.5.
C13_Witness ==
  /\ Matched
  /\ user_question = <<"h","e","u","r","e","s"," ","t","p">>
  /\ qa_match[1] = <<"A","3">>
  /\ 2 * qa_match[2].num = 5 * qa_match[2].den

\* C16: the answer returned is that of a record whose total score is the
\* largest of all the records of all the categories, and of the first such
\* record in scan order.
C16_FirstMaximumWins ==
  Matched
    => \E i \in 1..Len(Scanned) :
         /\ ReturnedAt(i)
         /\ \A j \in 1..Len(Scanned) : ~Greater(ScoreAt(j), ScoreAt(i))
         /\ \A j \in 1..(i - 1) : Greater(ScoreAt(i), ScoreAt(j))

\* Two records of two categories share the largest score and the first
\* one is returned, a record with a smaller score standing before them.
C16_Witness ==
  /\ Matched
  /\ user_question = <<"t","p">>
  /\ qa_data = <<<<qa_hours>>, <<qa_second>>, <<qa_first>>>>
  /\ ScoreAt(2) = ScoreAt(3)
  /\ qa_match[1] = <<"A","2">>

(***************************************************************************)
(* Properties of the loaded data and of the transcript.                    *)
(***************************************************************************)
\* C15: no call of get_smart_response, find_best_qa_match or
\* calculate_master_stats changes the Q&A bank, the data sets or the
\* transcript; the data stays as loaded, and the transcript changes only
\* in a POST request of the handler.
C15_CallsAreReadOnly ==
  [][/\ all_data' = all_data
     /\ qa_data' = qa_data
     /\ conversations' # conversations
          => \E msg \in CallQuestions : HomePost(msg)]_vars

\* Each of the three functions was called directly and a request was
\* served in between.
C15_Witness ==
  /\ Len(conversations) = 2
  /\ master_stats # NoDict
  /\ user_question = <<"h","i">>
  /\ response.tpl = "IndexError"

\* The transcript is made of a user turn followed by the bot turn that
\* answers it, again and again.
PairsOfTurns ==
  /\ Len(conversations) % 2 = 0
  /\ \A k \in 1..(Len(conversations) \div 2) :
       /\ conversations[2 * k - 1].type = "user"
       /\ conversations[2 * k] =
            Turn("bot", get_smart_response(conversations[2 * k - 1].content,
                                           all_data, qa_data))

\* C17: whatever requests the handler has served one after the other, the
\* transcript holds one (user turn, bot turn) pair for each POST with a
\* message that is not blank, in the order of the requests, the bot turn
\* being get_smart_response of the user turn; a GET or a POST with a blank
\* message leaves it alone and no request removes or rewrites a turn.
C17_TranscriptOfPairs ==
  /\ []PairsOfTurns
  /\ [][\E msg \in Messages :
          /\ strip(msg) # <<>>
          /\ HomePost(msg)
          /\ conversations' =
               conversations
               \o <<Turn("user", strip(msg)),
                    Turn("bot", get_smart_response(strip(msg), all_data,
                                                   qa_data))>>]_vars

=============================================================================
